---- MODULE Spec2Model ----
(***************************************************************************)
(* A model of the mdCATH stratified-sampling pipeline:                     *)
(*   main.py      main (refinement loop and the two output files)          *)
(*   sampling.py  hierarchical_stratified_sampling, network_aware_sampling *)
(*   validation.py statistical_validation, calculate_representation_index  *)
(*                                                                         *)
(* Representation.                                                         *)
(*  - A domain identifier is a pair <<p, s>> of naturals: p codes the      *)
(*    first four characters (domain[:4], the source structure) and s the   *)
(*    rest.  The lexicographic order of the pairs stands for the order of  *)
(*    the strings (sorted()).                                              *)
(*  - Real numbers are exact rationals <<n, d>> in lowest terms, d > 0.    *)
(*    The rounding of the IEEE doubles the program computes with is not    *)
(*    part of the model.                                                   *)
(*  - x ** (1/3) is kept exactly, as the record [cube |-> x].              *)
(*  - Library calls whose result depends on numeric feature values         *)
(*    (scipy.stats.kstest, scipy.stats.chi2.cdf, sklearn KMeans) and the   *)
(*    draws of numpy.random are nondeterministic choices over the results  *)
(*    the library may return.  The iteration order of a Python set of      *)
(*    strings is a nondeterministic choice as well.                        *)
(***************************************************************************)
EXTENDS Integers, Sequences, FiniteSets, TLC

VARIABLES
    domain_features,     \* main.py:35   DomainId -> FeatureRecord (Feature Store)
    cath_dict,           \* main.py:15   DomainId -> <<c, a, t, h>> (Classification Index)
    pc,                  \* position of the running function
    iteration,           \* main.py:56
    sample_ratio,        \* main.py:43/63, sampling.py:6/87 (parameter)
    holdout_domains,     \* main.py:43/66
    validation_results,  \* main.py:50/69, validation.py:7
    ri,                  \* main.py:51/70
    holdout_file,        \* main.py:77-80  lines of mdcath_holdout_domains.txt
    training_file,       \* main.py:84-87  lines of mdcath_training_domains.txt
    raised,              \* the exception that ended the running function, or "none"
    runs,                \* number of Sampler-Filter-Validator runs started (history)
    candidate_domains,   \* sampling.py:87  argument of network_aware_sampling
    stability_components,\* sampling.py:127
    sampled_indices,     \* sampling.py:145
    cath_hierarchy,      \* sampling.py:9   the domain lists still to be visited, in order
    domain_list,         \* sampling.py:25  the stratum being sampled
    appended,            \* what the stratum added to the candidate list (history)
    n_clusters,          \* sampling.py:28
    clusters             \* sampling.py:61  KMeans labels, by position in domain_order

vars == <<domain_features, cath_dict, pc, iteration, sample_ratio, holdout_domains,
          validation_results, ri, holdout_file, training_file, raised, runs,
          candidate_domains, stability_components, sampled_indices,
          cath_hierarchy, domain_list, appended, n_clusters, clusters>>

(***************************************************************************)
(* Exact rational arithmetic.                                              *)
(***************************************************************************)
\* the greatest common divisor of a >= 0 and b > 0
Gcd(a, b) ==
    LET common == {g \in 1..b : b % g = 0 /\ a % g = 0}
    IN  CHOOSE g \in common : \A h \in common : h <= g

Abs(x) == IF x < 0 THEN -x ELSE x

\* n/d in lowest terms, for values n and d > 0
Lowest(n, d) ==
    LET g == Gcd(Abs(n), d)
    IN  IF n = 0 THEN <<0, 1>> ELSE <<n \div g, d \div g>>

\* the rational n/d; the members of the two singleton sets are values, so the
\* expressions n and d are evaluated once
Rat(n, d) == CHOOSE q \in {Lowest(nn, dd) : nn \in {n}, dd \in {d}} : TRUE

\* x + y and x * y, the operands evaluated once as in Rat
RAdd(x, y) ==
    CHOOSE q \in {Lowest(a[1] * b[2] + b[1] * a[2], a[2] * b[2]) : a \in {x}, b \in {y}} : TRUE
RMul(x, y) ==
    CHOOSE q \in {Lowest(a[1] * b[1], a[2] * b[2]) : a \in {x}, b \in {y}} : TRUE
RLt(x, y)  == x[1] * y[2] < y[1] * x[2]
RInt(k)    == <<k, 1>>

\* int(x) for x >= 0 and numpy.ceil(x)
Floor(x) == x[1] \div x[2]
Ceil(x)  == (x[1] + x[2] - 1) \div x[2]

Max(a, b) == IF a >= b THEN a ELSE b

(***************************************************************************)
(* Sequences and sets.                                                     *)
(***************************************************************************)
Range(s) == {s[i] : i \in DOMAIN s}

\* the value of a name that is not bound yet
None == <<>>

\* a file that was not opened for writing, and a file written with these lines
Unwritten == [written |-> FALSE, lines |-> <<>>]
Written(lines) == [written |-> TRUE, lines |-> lines]

\* every sequence of k distinct members of S
RECURSIVE InjSeqs(_, _)
InjSeqs(S, k) ==
    IF k = 0 THEN {<<>>}
    ELSE UNION {{<<x>> \o s : s \in InjSeqs(S \ {x}, k - 1)} : x \in S}

\* every sequence that lists the members of S once: the orders in which a
\* Python set can be iterated
AllOrders(S) == InjSeqs(S, Cardinality(S))

\* domain1[:4]
Prefix(d) == d[1]

\* the order sorted() gives domain identifiers
IdLess(d, e) == d[1] < e[1] \/ (d[1] = e[1] /\ d[2] < e[2])

\* sorted(S) for a collection of distinct identifiers
RECURSIVE SortedIds(_)
SortedIds(S) ==
    IF S = {} THEN <<>>
    ELSE LET m == CHOOSE d \in S : \A e \in S \ {d} : IdLess(d, e)
         IN  <<m>> \o SortedIds(S \ {m})

(***************************************************************************)
(* sampling.py: network_aware_sampling (the Homology Filter).              *)
(***************************************************************************)
\* sampling.py:105-114: the test that adds the edge domain1 -- domain2
EdgeSamePdbOnly(d1, d2) == Prefix(d1) = Prefix(d2)

Edge(d1, d2) ==
    IF Prefix(d1) = Prefix(d2) THEN TRUE
    ELSE IF d1 \in DOMAIN cath_dict /\ d2 \in DOMAIN cath_dict
         THEN cath_dict[d1] = cath_dict[d2]
         ELSE FALSE

\* the nodes reachable from S in the graph over nodes
RECURSIVE Closure(_, _)
Closure(S, nodes) ==
    LET N == S \cup {y \in nodes : \E x \in S : Edge(x, y)}
    IN  IF N = S THEN S ELSE Closure(N, nodes)

\* sampling.py:117: list(nx.connected_components(G)): the components in the
\* order in which their first node was added to G
RECURSIVE ComponentsFrom(_, _, _, _)
ComponentsFrom(cands, i, seen, acc) ==
    IF i > Len(cands) THEN acc
    ELSE IF cands[i] \in seen THEN ComponentsFrom(cands, i + 1, seen, acc)
    ELSE LET c == Closure({cands[i]}, Range(cands))
         IN  ComponentsFrom(cands, i + 1, seen \cup c, Append(acc, c))

ConnectedComponents(cands) == ComponentsFrom(cands, 1, {}, <<>>)

\* sampling.py:124: sorted(connected_components, key=len, reverse=True); the
\* sort is stable, so components of one size keep their order
SortedComponents(cc) ==
    LET Before(j, i) ==
            \/ Cardinality(cc[j]) > Cardinality(cc[i])
            \/ (Cardinality(cc[j]) = Cardinality(cc[i]) /\ j < i)
        RankOf(i) == 1 + Cardinality({j \in DOMAIN cc : Before(j, i)})
    IN  [r \in DOMAIN cc |-> cc[CHOOSE i \in DOMAIN cc : RankOf(i) = r]]

\* sampling.py:134
StabilityClassOf(d) ==
    IF "stability_class" \in DOMAIN domain_features[d]
    THEN domain_features[d]["stability_class"]
    ELSE "unknown"

\* sampling.py:130-142: the classes max() may return for a component: the first
\* of the most frequent classes in the order the component (a set) is iterated
MajorityClasses(component) ==
    LET inF      == component \cap DOMAIN domain_features
        count(c) == Cardinality({d \in inF : StabilityClassOf(d) = c})
        present  == {StabilityClassOf(d) : d \in inF}
    IN  IF inF = {} THEN {"unknown"}
        ELSE {c \in present : \A e \in present : count(c) >= count(e)}

\* every assignment of a majority class to sorted_components[1..i]
RECURSIVE MajorityAssignments(_, _)
MajorityAssignments(sorted, i) ==
    IF i = 0 THEN {<<>>}
    ELSE {Append(m, c) : m \in MajorityAssignments(sorted, i - 1),
                         c \in MajorityClasses(sorted[i])}

\* the keys of stability_components in insertion order
RECURSIVE ClassOrder(_, _, _)
ClassOrder(maj, i, acc) ==
    IF i > Len(maj) THEN acc
    ELSE ClassOrder(maj, i + 1, IF maj[i] \in Range(acc) THEN acc ELSE Append(acc, maj[i]))

\* stability_components[c]: the indices i of the components assigned to c,
\* ascending (the model keeps i of each (i, component) pair; indices count from 1)
RECURSIVE BucketOf(_, _, _)
BucketOf(maj, c, i) ==
    IF i > Len(maj) THEN <<>>
    ELSE (IF maj[i] = c THEN <<i>> ELSE <<>>) \o BucketOf(maj, c, i + 1)

StabilityComponents(maj) == [c \in Range(maj) |-> BucketOf(maj, c, 1)]

\* sampling.py:148
ClassSampleSizeCeil(n, r) == Max(1, Ceil(RMul(RInt(n), r)))

ClassSampleSize(n, r) == Max(1, Floor(RMul(RInt(n), r)))

\* sampling.py:149: np.random.choice(n, size, replace=False), positions from 1
RandomChoice(n, size) == InjSeqs(1..n, size)

\* sampling.py:147-152: every value of sampled_indices, the buckets taken in
\* the order of classOrder[k..]
RECURSIVE SampledIndices(_, _, _, _)
SampledIndices(sc, classOrder, k, r) ==
    IF k > Len(classOrder) THEN {<<>>}
    ELSE LET components == sc[classOrder[k]]
             size       == ClassSampleSize(Len(components), r)
         IN  {[j \in 1..size |-> components[sel[j]]] \o rest :
                 sel  \in RandomChoice(Len(components), size),
                 rest \in SampledIndices(sc, classOrder, k + 1, r)}

\* sampling.py:157: what final_holdout.extend(component) appends
ExtendWith(component) == AllOrders(component)

\* sampling.py:155-157: every value of final_holdout
RECURSIVE FinalHoldouts(_, _)
FinalHoldouts(sorted, idxs) ==
    IF idxs = <<>> THEN {<<>>}
    ELSE {p \o rest : p \in ExtendWith(sorted[Head(idxs)]),
                      rest \in FinalHoldouts(sorted, Tail(idxs))}

\* sorted(sampled_indices)
SortedSeq(s) ==
    LET AtOrBefore(j, i) == s[j] < s[i] \/ (s[j] = s[i] /\ j <= i)
        RankOf(i) == Cardinality({j \in DOMAIN s : AtOrBefore(j, i)})
    IN  [r \in DOMAIN s |-> s[CHOOSE i \in DOMAIN s : RankOf(i) = r]]

\* sampling.py:87-159: every result of network_aware_sampling(cands, ..., r)
\* with the values its locals end with
NetworkAwareSamplingOutcomes(cands, r) ==
    LET Sampled(sorted, maj, sc) ==
            UNION {{[stability_components |-> sc,
                     sampled_indices      |-> si,
                     final_holdout        |-> fh] :
                        fh \in FinalHoldouts(sorted, SortedSeq(si))} :
                   si \in SampledIndices(sc, ClassOrder(maj, 1, <<>>), 1, r)}
        Classified(sorted) ==
            UNION {UNION {Sampled(sorted, maj, sc) : sc \in {StabilityComponents(maj)}} :
                   maj \in MajorityAssignments(sorted, Len(sorted))}
    IN  UNION {Classified(sorted) :
               sorted \in {SortedComponents(ConnectedComponents(cands))}}

(***************************************************************************)
(* sampling.py: hierarchical_stratified_sampling (the Stratified Sampler). *)
(***************************************************************************)
\* sampling.py:12
Domains == DOMAIN domain_features \cap DOMAIN cath_dict

\* sampling.py:14-17: the keys (c, a, t) of the topologies of cath_hierarchy
StratumKeys == {SubSeq(cath_dict[d], 1, 3) : d \in Domains}

\* cath_hierarchy[c][a][t].  The order of the list follows the iteration of
\* the set `domains`; only positions depend on it, so the list is kept sorted
StratumOf(key) == SortedIds({d \in Domains : SubSeq(cath_dict[d], 1, 3) = key})

\* sampling.py:23-25: the orders in which the nested loops can visit the
\* topologies: a class's architectures and an architecture's topologies are
\* visited together, each level in the insertion order of its dictionary
HierarchyOrders ==
    {ord \in AllOrders(StratumKeys) :
        \A i, j, k \in DOMAIN ord :
            (i < j /\ j < k) =>
                /\ (ord[i][1] = ord[k][1] => ord[j][1] = ord[i][1])
                /\ (SubSeq(ord[i], 1, 2) = SubSeq(ord[k], 1, 2)
                      => SubSeq(ord[j], 1, 2) = SubSeq(ord[i], 1, 2))}

\* sampling.py:28
NClustersFloor(n, r) == Max(1, Floor(RMul(RInt(n), r)))

NClusters(n, r) == Max(1, Ceil(RMul(RInt(n), r)))

\* sampling.py:26
LargeStratum == 10

\* sampling.py:60-61: the labels KMeans(n_clusters=k).fit_predict may give n rows
\* (cluster ids count from 0)
KMeansLabels(n, k) == [1..n -> 0..(k - 1)]

\* sampling.py:64-68: the representatives appended for clusters cluster_id..k-1
RECURSIVE Representatives(_, _, _, _)
Representatives(domain_order, labels, cluster_id, k) ==
    IF cluster_id >= k THEN {<<>>}
    ELSE LET cluster_domains ==
                 {domain_order[i] : i \in {j \in DOMAIN domain_order : labels[j] = cluster_id}}
             rest == Representatives(domain_order, labels, cluster_id + 1, k)
         IN  IF cluster_domains # {}
             THEN {<<d>> \o t : d \in cluster_domains, t \in rest}
             ELSE rest

\* sampling.py:78
NumToSampleCeil(n, r) == Max(1, Ceil(RMul(RInt(n), r)))

NumToSample(n, r) == Max(1, Floor(RMul(RInt(n), r)))

\* sampling.py:26-80: what one topology adds to the candidate list, with the
\* cluster count and labels of the k-means branch
StratumOutcomes(dl, r) ==
    IF Len(dl) >= LargeStratum
    THEN UNION {UNION {{[n_clusters |-> k, clusters |-> labels, appended |-> reps] :
                           reps \in Representatives(dl, labels, 0, k)} :
                       labels \in KMeansLabels(Len(dl), k)} :
                k \in {NClusters(Len(dl), r)}}
    ELSE IF Len(dl) = 1
    THEN {[n_clusters |-> 0, clusters |-> None, appended |-> a] : a \in {<<>>, dl}}
    ELSE {[n_clusters |-> 0, clusters |-> None, appended |-> a] :
             a \in InjSeqs(Range(dl), NumToSample(Len(dl), r))}

\* sampling.py:23-80: the candidate lists the loops build over the topologies
\* ord[k..]
RECURSIVE CandidateLists(_, _, _)
CandidateLists(ord, k, r) ==
    IF k > Len(ord) THEN {<<>>}
    ELSE {o.appended \o rest : o \in StratumOutcomes(StratumOf(ord[k]), r),
                               rest \in CandidateLists(ord, k + 1, r)}

\* sampling.py:6-85: every list hierarchical_stratified_sampling may return
HierarchicalStratifiedSampling(r) ==
    UNION {UNION {{o.final_holdout : o \in NetworkAwareSamplingOutcomes(cands, r)} :
                  cands \in CandidateLists(ord, 1, r)} :
           ord \in HierarchyOrders}

(***************************************************************************)
(* main.py: the ratios the refinement loop passes to the pipeline.         *)
(***************************************************************************)
\* main.py:55
max_iterations == 5

\* main.py:43
BaseRatio == <<1, 10>>

\* main.py:58
Threshold == <<9, 10>>

\* main.py:63: 0.1 * (1 + 0.1 * iteration)
SampleRatioConstant(i) == RMul(<<1, 10>>, RAdd(RInt(1), <<1, 10>>))

SampleRatio(i) == RMul(<<1, 10>>, RAdd(RInt(1), RMul(<<1, 10>>, RInt(i))))

Ratios == {BaseRatio} \cup {SampleRatio(i) : i \in 1..max_iterations}

(***************************************************************************)
(* Feature records (feature_extractor.py:27-76).  The numeric values are   *)
(* read only by the library calls, so every number is the token 0; what    *)
(* the code tests is which keys a record holds.                            *)
(***************************************************************************)
BasicFeatures == [k \in {"size", "helix_pct", "sheet_pct"} |-> 0]

\* a record with no RMSF aggregate: no avg_rmsf_320, no stability_class
NoRmsf == BasicFeatures

\* a record with avg_rmsf_320 and no stability class (no 450 K aggregate)
Rmsf320 == ("avg_rmsf_320" :> 0) @@ BasicFeatures

\* a record with both aggregates and the class derived from their ratio
WithClass(c) == ("stability_class" :> c) @@ Rmsf320

(***************************************************************************)
(* validation.py: statistical_validation and                               *)
(* calculate_representation_index.                                         *)
(***************************************************************************)
\* the resolution of the p-values the model draws
PScale == 1

\* the p-values scipy.stats.kstest and 1 - scipy.stats.chi2.cdf may return
PValues == {Rat(k, PScale) : k \in 0..PScale}

\* [d for d in xs if d in m]
RECURSIVE FilterIn(_, _)
FilterIn(xs, m) ==
    IF xs = <<>> THEN <<>>
    ELSE (IF Head(xs) \in DOMAIN m THEN <<Head(xs)>> ELSE <<>>) \o FilterIn(Tail(xs), m)

\* validation.py:10
HoldoutWithFeatures(holdout) == FilterIn(holdout, domain_features)

\* validation.py:11, all_domains being list(domain_features.keys()) (main.py:38)
AllDomains == DOMAIN domain_features

\* validation.py:44-45: the classifications of the listed domains, one per entry
HoldoutCathIdx(holdout) == {i \in DOMAIN holdout : holdout[i] \in DOMAIN cath_dict}
AllCathDomains == AllDomains \cap DOMAIN cath_dict

\* validation.py:87-93: the distinct prefixes of length k of a collection of codes
Prefixes(codes, k) == {SubSeq(c, 1, k) : c \in codes}

HoldoutCodes(holdout) == {cath_dict[holdout[i]] : i \in HoldoutCathIdx(holdout)}
AllCodes == {cath_dict[d] : d \in AllCathDomains}

\* validation.py:95-97
Coverage(part, whole) ==
    IF whole # {} THEN Rat(Cardinality(part), Cardinality(whole)) ELSE RInt(1)

\* validation.py:100
HierarchyCoverageEqualWeights(holdout) ==
    RAdd(RAdd(RMul(<<1, 2>>, Coverage(Prefixes(HoldoutCodes(holdout), 1), Prefixes(AllCodes, 1))),
              RMul(<<1, 2>>, Coverage(Prefixes(HoldoutCodes(holdout), 2), Prefixes(AllCodes, 2)))),
         RMul(<<1, 2>>, Coverage(Prefixes(HoldoutCodes(holdout), 3), Prefixes(AllCodes, 3))))

HierarchyCoverage(holdout) ==
    RAdd(RAdd(RMul(<<1, 5>>, Coverage(Prefixes(HoldoutCodes(holdout), 1), Prefixes(AllCodes, 1))),
              RMul(<<3, 10>>, Coverage(Prefixes(HoldoutCodes(holdout), 2), Prefixes(AllCodes, 2)))),
         RMul(<<1, 2>>, Coverage(Prefixes(HoldoutCodes(holdout), 3), Prefixes(AllCodes, 3))))

\* validation.py:60: both sides show more than one class code
Chi2Possible(holdout) ==
    /\ Cardinality(Prefixes(HoldoutCodes(holdout), 1)) > 1
    /\ Cardinality(Prefixes(AllCodes, 1)) > 1

\* validation.py:55-65: chi2 = 0, every observed count being the expected one
\* all_class_count[c] * len(holdout_class) / len(all_class)
Chi2IsZero(holdout) ==
    \A c \in Prefixes(AllCodes, 1) :
        Cardinality({i \in HoldoutCathIdx(holdout) : SubSeq(cath_dict[holdout[i]], 1, 1) = c})
            * Cardinality(AllCathDomains)
        = Cardinality({d \in AllCathDomains : SubSeq(cath_dict[d], 1, 1) = c})
            * Cardinality(HoldoutCathIdx(holdout))

\* validation.py:68: 1 - chi2.cdf(chi2, df), which is 1 at chi2 = 0
Chi2PValues(holdout) == IF Chi2IsZero(holdout) THEN {RInt(1)} ELSE PValues

\* validation.py:72-83
StabilityCoverage(hwf) ==
    LET holdout_stability == {StabilityClassOf(hwf[i]) : i \in DOMAIN hwf}
        all_stability     == {StabilityClassOf(d) : d \in AllDomains}
    IN  IF all_stability # {}
        THEN Rat(Cardinality(holdout_stability), Cardinality(all_stability))
        ELSE RInt(1)

\* x ** (1/3), kept by its cube
CubeRoot(x) == [cube |-> x]

\* validation_results.get(key, default)
Get(m, key, default) == IF key \in DOMAIN m THEN m[key] ELSE default

\* numpy.mean of the values of the keys that end in _pval (validation.py:104-105)
PValKeys == {"ks_size_pval", "ks_rmsf_pval", "ks_helix_pval", "ks_sheet_pval", "chi2_class_pval"}

RECURSIVE RSum(_, _)
RSum(m, K) ==
    IF K = {} THEN RInt(0)
    ELSE CHOOSE q \in {RAdd(m[k], RSum(m, K \ {k})) : k \in {CHOOSE x \in K : TRUE}} : TRUE

DistributionSimilarity(m) ==
    LET K == DOMAIN m \cap PValKeys
    IN  IF K # {} THEN RMul(RSum(m, K), <<1, Cardinality(K)>>) ELSE RInt(0)

\* validation.py:108-111
RepresentationIndex(m) ==
    CubeRoot(RMul(RMul(m["distribution_similarity"], m["hierarchy_coverage"]),
                  Get(m, "stability_coverage", RInt(1))))

\* validation.py:115-122
CalculateRepresentationIndex(m) ==
    CubeRoot(RMul(RMul(Get(m, "distribution_similarity", RInt(0)),
                       Get(m, "hierarchy_coverage", RInt(0))),
                  Get(m, "stability_coverage", RInt(0))))

\* validation.py:17-21 on an empty holdout_with_features: kstest either raises
\* ValueError on the empty sample (line 17) or returns nan, and then line 21
\* indexes the empty list
EmptyHoldoutExceptions == {"ValueError", "IndexError"}

\* validation.py:13-84: the metrics recorded before the summary scores
MetricsOf(holdout) ==
    LET hwf   == HoldoutWithFeatures(holdout)
        first == domain_features[hwf[1]]
        optional(cond, key, values) ==
            IF cond THEN {(key :> v) : v \in values} ELSE {<<>>}
    IN  {(("ks_size_pval" :> p1) @@ ("ks_helix_pval" :> p3) @@ ("ks_sheet_pval" :> p4)
           @@ ("hierarchy_coverage" :> hc)) @@ o2 @@ o5 @@ o6 :
            p1 \in PValues, p3 \in PValues, p4 \in PValues,
            o2 \in optional("avg_rmsf_320" \in DOMAIN first, "ks_rmsf_pval", PValues),
            o5 \in optional(Chi2Possible(holdout), "chi2_class_pval", Chi2PValues(holdout)),
            o6 \in optional("stability_class" \in DOMAIN first, "stability_coverage",
                            {StabilityCoverage(hwf)}),
            hc \in {HierarchyCoverage(holdout)}}

\* validation.py:103-111
WithSummary(m) ==
    CHOOSE r \in {("representation_index" :> RepresentationIndex(m1)) @@ m1 :
                    m1 \in {("distribution_similarity" :> DistributionSimilarity(m)) @@ m}} : TRUE

\* validation.py:5-113: every outcome of statistical_validation(holdout, all_domains, ...)
StatisticalValidationOutcomes(holdout) ==
    IF HoldoutWithFeatures(holdout) = <<>>
    THEN {[raised |-> e, results |-> None] : e \in EmptyHoldoutExceptions}
    ELSE {[raised |-> "none", results |-> WithSummary(m)] : m \in MetricsOf(holdout)}

(***************************************************************************)
(* Inputs of the Homology Filter: stretches of a fixed list of domains.     *)
(***************************************************************************)
NSingles == 14

FilterSingles == [j \in 1..NSingles |-> <<5 + j, 1>>]

FilterUniverse ==
    << <<1, 1>>, <<1, 2>>, <<2, 1>>, <<3, 1>>, <<4, 1>>, <<4, 2>>, <<5, 1>> >> \o FilterSingles

FilterCath ==
    (<<1, 1>> :> <<1, 10, 10, 10>>) @@ (<<1, 2>> :> <<2, 20, 20, 20>>) @@
    (<<2, 1>> :> <<2, 20, 20, 20>>) @@ (<<3, 1>> :> <<1, 10, 10, 20>>) @@
    (<<4, 1>> :> <<1, 10, 20, 10>>) @@ (<<4, 2>> :> <<1, 20, 20, 10>>) @@
    [d \in Range(FilterSingles) |-> <<3, 30, 30, d[1]>>]

FilterFeatures ==
    (<<1, 1>> :> WithClass("stable")) @@ (<<1, 2>> :> WithClass("moderate")) @@
    (<<2, 1>> :> WithClass("unstable")) @@ (<<4, 1>> :> Rmsf320) @@
    (<<4, 2>> :> WithClass("stable")) @@ (<<5, 1>> :> WithClass("stable")) @@
    [d \in Range(FilterSingles) |-> WithClass("stable")]

Reverse(s) == [i \in DOMAIN s |-> s[Len(s) + 1 - i]]

\* the prefixes that end in the first half of the singles, the suffixes that
\* start after the first three domains, and both in reverse order
FilterInputs ==
    LET n == Len(FilterUniverse)
        W == {SubSeq(FilterUniverse, 1, b) : b \in 0..(n - NSingles + NSingles \div 2)}
             \cup {SubSeq(FilterUniverse, a, n) : a \in 4..(n - NSingles + 1)}
    IN  W \cup {Reverse(w) : w \in W}

InitFilter ==
    /\ domain_features = FilterFeatures
    /\ cath_dict = FilterCath
    /\ candidate_domains \in FilterInputs
    /\ sample_ratio \in Ratios
    /\ pc = "network_aware_sampling"
    /\ iteration = 0
    /\ holdout_domains = None
    /\ validation_results = None
    /\ ri = None
    /\ holdout_file = Unwritten
    /\ training_file = Unwritten
    /\ raised = "none"
    /\ runs = 0
    /\ stability_components = None
    /\ sampled_indices = None
    /\ cath_hierarchy = None
    /\ domain_list = None
    /\ appended = None
    /\ n_clusters = 0
    /\ clusters = None

\* sampling.py:87-159
NetworkAwareSampling ==
    /\ pc = "network_aware_sampling"
    /\ \E o \in NetworkAwareSamplingOutcomes(candidate_domains, sample_ratio) :
          /\ stability_components' = o.stability_components
          /\ sampled_indices' = o.sampled_indices
          /\ holdout_domains' = o.final_holdout
    /\ pc' = "returned"
    /\ UNCHANGED <<domain_features, cath_dict, iteration, sample_ratio, validation_results,
                   ri, holdout_file, training_file, raised, runs, candidate_domains,
                   cath_hierarchy, domain_list, appended, n_clusters, clusters>>

NextFilter == NetworkAwareSampling

SpecFilter == InitFilter /\ [][NextFilter]_vars

(***************************************************************************)
(* Properties of the Homology Filter.                                      *)
(***************************************************************************)
ShareStructureOrClassification(d1, d2) ==
    \/ d1[1] = d2[1]
    \/ /\ d1 \in DOMAIN cath_dict
       /\ d2 \in DOMAIN cath_dict
       /\ cath_dict[d1] = cath_dict[d2]

\* C2: the result of network_aware_sampling holds candidates only, and two
\* candidates that share their source-structure prefix or their 4-tuple
\* classification are both in the result or both left out of it: the result
\* is a union of whole components of the candidate graph.
C2_HomologyClosure ==
    pc = "returned" =>
        /\ Range(holdout_domains) \subseteq Range(candidate_domains)
        /\ \A d1, d2 \in Range(candidate_domains) :
              ShareStructureOrClassification(d1, d2) =>
                  (d1 \in Range(holdout_domains) <=> d2 \in Range(holdout_domains))

\* a component of three candidates passed whole while a pair of homologous
\* candidates was left out whole
C2_Witness ==
    /\ pc = "returned"
    /\ {<<1, 1>>, <<1, 2>>, <<2, 1>>} \subseteq Range(holdout_domains)
    /\ {<<4, 1>>, <<4, 2>>} \subseteq Range(candidate_domains)
    /\ {<<4, 1>>, <<4, 2>>} \cap Range(holdout_domains) = {}

\* the number of entries of sampled_indices that name a component of bucket c
SampledFrom(c) ==
    Cardinality({j \in DOMAIN sampled_indices :
                    sampled_indices[j] \in Range(stability_components[c])})

AllDistinct(s) == \A i, j \in DOMAIN s : i # j => s[i] # s[j]

\* C9 as stated: from every bucket ceil(|bucket| x r) components are sampled,
\* at least 1, all distinct.
C9_CeilPerBucket ==
    pc = "returned" =>
        /\ AllDistinct(sampled_indices)
        /\ \A c \in DOMAIN stability_components :
              LET n == Len(stability_components[c])
                  x == n * sample_ratio[1]
                  up == (x + sample_ratio[2] - 1) \div sample_ratio[2]
              IN  SampledFrom(c) = (IF up < 1 THEN 1 ELSE up)

\* C9 amended: from every bucket max(1, floor(|bucket| x r)) components are
\* sampled, all distinct.
C9_FloorPerBucket ==
    pc = "returned" =>
        /\ AllDistinct(sampled_indices)
        /\ \A c \in DOMAIN stability_components :
              LET n == Len(stability_components[c])
                  down == (n * sample_ratio[1]) \div sample_ratio[2]
              IN  /\ n > 0
                  /\ SampledFrom(c) = (IF down < 1 THEN 1 ELSE down)

\* a bucket from which two components were sampled, beside another bucket
C9_Witness ==
    /\ pc = "returned"
    /\ Cardinality(DOMAIN stability_components) >= 2
    /\ \E c \in DOMAIN stability_components : SampledFrom(c) = 2

(***************************************************************************)
(* Feature Stores and Classification Indexes of up to five domains, the    *)
(* inputs of the validator and of main.                                    *)
(***************************************************************************)
ScenarioCath ==
    (<<1, 1>> :> <<1, 10, 10, 10>>) @@ (<<1, 2>> :> <<1, 10, 10, 10>>) @@
    (<<2, 1>> :> <<2, 20, 20, 20>>)

SmallWorlds ==
    { \* the three domains of the spec's scenario, every one with a stability class
      [features |-> (<<1, 1>> :> WithClass("stable")) @@ (<<1, 2>> :> WithClass("moderate"))
                    @@ (<<2, 1>> :> WithClass("stable")),
       cath     |-> ScenarioCath],
      \* a featured domain that is not classified, a classified one with no features
      [features |-> (<<1, 1>> :> WithClass("stable")) @@ (<<1, 2>> :> WithClass("moderate"))
                    @@ (<<2, 1>> :> WithClass("stable")) @@ (<<3, 1>> :> Rmsf320),
       cath     |-> (<<4, 1>> :> <<2, 20, 30, 10>>) @@ ScenarioCath],
      \* no domain in both mappings
      [features |-> (<<3, 1>> :> WithClass("stable")),
       cath     |-> (<<4, 1>> :> <<2, 20, 30, 10>>)],
      \* an empty Feature Store
      [features |-> None,
       cath     |-> ScenarioCath],
      \* no RMSF aggregate anywhere
      [features |-> (<<1, 1>> :> NoRmsf) @@ (<<1, 2>> :> NoRmsf) @@ (<<2, 1>> :> NoRmsf),
       cath     |-> ScenarioCath],
      \* one stratum of two domains of one class
      [features |-> (<<1, 1>> :> WithClass("stable")) @@ (<<1, 2>> :> WithClass("stable")),
       cath     |-> (<<1, 1>> :> <<1, 10, 10, 10>>) @@ (<<1, 2>> :> <<1, 10, 10, 20>>)],
      \* stability classes recorded for some domains only
      [features |-> (<<1, 1>> :> Rmsf320) @@ (<<1, 2>> :> WithClass("unstable"))
                    @@ (<<2, 1>> :> NoRmsf),
       cath     |-> ScenarioCath] }

\* the longest holdout list handed to the validator
MaxHoldout == 3

InitValidator ==
    /\ \E w \in SmallWorlds :
          /\ domain_features = w.features
          /\ cath_dict = w.cath
    /\ holdout_domains \in UNION {InjSeqs(AllDomains, k) : k \in 0..MaxHoldout}
    /\ pc = "statistical_validation"
    /\ sample_ratio = BaseRatio
    /\ iteration = 0
    /\ validation_results = None
    /\ ri = None
    /\ holdout_file = Unwritten
    /\ training_file = Unwritten
    /\ raised = "none"
    /\ runs = 0
    /\ candidate_domains = None
    /\ stability_components = None
    /\ sampled_indices = None
    /\ cath_hierarchy = None
    /\ domain_list = None
    /\ appended = None
    /\ n_clusters = 0
    /\ clusters = None

\* validation.py:5-113
StatisticalValidation ==
    /\ pc = "statistical_validation"
    /\ \E o \in StatisticalValidationOutcomes(holdout_domains) :
          /\ validation_results' = o.results
          /\ raised' = o.raised
          /\ pc' = IF o.raised = "none" THEN "returned" ELSE "raised"
    /\ UNCHANGED <<domain_features, cath_dict, iteration, sample_ratio, holdout_domains, ri,
                   holdout_file, training_file, runs, candidate_domains,
                   stability_components, sampled_indices, cath_hierarchy, domain_list, appended, n_clusters, clusters>>

\* validation.py:115-122, applied to the record statistical_validation returned
CalculateRI ==
    /\ pc = "returned"
    /\ ri' = CalculateRepresentationIndex(validation_results)
    /\ pc' = "calculated"
    /\ UNCHANGED <<domain_features, cath_dict, iteration, sample_ratio, holdout_domains,
                   validation_results, holdout_file, training_file, raised, runs,
                   candidate_domains, stability_components, sampled_indices,
                   cath_hierarchy, domain_list, appended, n_clusters, clusters>>

NextValidator == StatisticalValidation \/ CalculateRI

SpecValidator == InitValidator /\ [][NextValidator]_vars

(***************************************************************************)
(* The Stratified Sampler, one topology at a time.                         *)
(***************************************************************************)
\* the size of the largest topology
MaxStratum == 10

\* a topology of n domains of two superfamilies, and a single-member topology
BigWorld(n) ==
    LET big == {<<10 + j, 1>> : j \in 1..n}
    IN  [features |-> [d \in big \cup {<<1, 1>>} |-> WithClass("stable")],
         cath     |-> (<<1, 1>> :> <<1, 10, 10, 10>>)
                      @@ [d \in big |-> <<4, 40, 40, 1 + (d[1] % 2)>>]]

SamplerWorlds == SmallWorlds \cup {BigWorld(n) : n \in LargeStratum..MaxStratum}

InitSampler ==
    /\ \E w \in SamplerWorlds :
          /\ domain_features = w.features
          /\ cath_dict = w.cath
    /\ sample_ratio \in {BaseRatio, SampleRatio(max_iterations)}
    /\ pc = "hierarchical_stratified_sampling"
    /\ iteration = 0
    /\ holdout_domains = None
    /\ validation_results = None
    /\ ri = None
    /\ holdout_file = Unwritten
    /\ training_file = Unwritten
    /\ raised = "none"
    /\ runs = 0
    /\ candidate_domains = None
    /\ stability_components = None
    /\ sampled_indices = None
    /\ cath_hierarchy = None
    /\ domain_list = None
    /\ appended = None
    /\ n_clusters = 0
    /\ clusters = None

\* sampling.py:9-20
BuildHierarchy ==
    /\ pc = "hierarchical_stratified_sampling"
    /\ \E ord \in HierarchyOrders :
          cath_hierarchy' = [k \in DOMAIN ord |-> StratumOf(ord[k])]
    /\ candidate_domains' = <<>>
    /\ pc' = "topologies"
    /\ UNCHANGED <<domain_features, cath_dict, iteration, sample_ratio, holdout_domains,
                   validation_results, ri, holdout_file, training_file, raised, runs,
                   stability_components, sampled_indices, domain_list, appended,
                   n_clusters, clusters>>

\* sampling.py:25-80: one pass of the innermost loop
SampleStratum ==
    /\ pc = "topologies"
    /\ cath_hierarchy # <<>>
    /\ domain_list' = Head(cath_hierarchy)
    /\ cath_hierarchy' = Tail(cath_hierarchy)
    /\ \E o \in StratumOutcomes(Head(cath_hierarchy), sample_ratio) :
          /\ n_clusters' = o.n_clusters
          /\ clusters' = o.clusters
          /\ appended' = o.appended
          /\ candidate_domains' = candidate_domains \o o.appended
    /\ UNCHANGED <<domain_features, cath_dict, pc, iteration, sample_ratio, holdout_domains,
                   validation_results, ri, holdout_file, training_file, raised, runs,
                   stability_components, sampled_indices>>

\* sampling.py:83-85
FilterCandidates ==
    /\ pc = "topologies"
    /\ cath_hierarchy = <<>>
    /\ \E o \in NetworkAwareSamplingOutcomes(candidate_domains, sample_ratio) :
          /\ stability_components' = o.stability_components
          /\ sampled_indices' = o.sampled_indices
          /\ holdout_domains' = o.final_holdout
    /\ pc' = "returned"
    \* the locals of the loops are gone with the return
    /\ domain_list' = None
    /\ appended' = None
    /\ n_clusters' = 0
    /\ clusters' = None
    /\ UNCHANGED <<domain_features, cath_dict, iteration, sample_ratio, validation_results,
                   ri, holdout_file, training_file, raised, runs, candidate_domains,
                   cath_hierarchy>>

NextSampler == BuildHierarchy \/ SampleStratum \/ FilterCandidates

SpecSampler == InitSampler /\ [][NextSampler]_vars

\* C10: a topology of n >= 10 domains is clustered into k = max(1, ceil(n x r))
\* clusters and adds one member of every non-empty cluster: between 1 and k
\* distinct candidates, all its own; 10 domains at ratio 0.1 give k = 1 and
\* one candidate.
C10_LargeStratum ==
    (pc = "topologies" /\ domain_list # None /\ Len(domain_list) >= 10) =>
        LET n  == Len(domain_list)
            x  == n * sample_ratio[1]
            up == (x + sample_ratio[2] - 1) \div sample_ratio[2]
            k  == IF up < 1 THEN 1 ELSE up
            NonEmpty == {c \in 0..(k - 1) : \E i \in 1..n : clusters[i] = c}
        IN  /\ n_clusters = k
            /\ DOMAIN clusters = 1..n
            /\ \A i \in 1..n : clusters[i] \in 0..(k - 1)
            /\ Len(appended) = Cardinality(NonEmpty)
            /\ \A c \in NonEmpty :
                  Cardinality({j \in DOMAIN appended :
                      \E i \in 1..n : domain_list[i] = appended[j] /\ clusters[i] = c}) = 1
            /\ 1 <= Len(appended) /\ Len(appended) <= k
            /\ AllDistinct(appended)
            /\ Range(appended) \subseteq Range(domain_list)
            /\ ((n = 10 /\ sample_ratio = <<1, 10>>) => (k = 1 /\ Len(appended) = 1))

\* a topology of at least 10 domains that added two candidates, one from each
\* of two clusters
C10_Witness ==
    /\ pc = "topologies"
    /\ domain_list # None
    /\ Len(domain_list) >= 10
    /\ n_clusters = 2
    /\ Len(appended) = 2

(***************************************************************************)
(* The Stratified Sampler on topologies of fewer than 10 domains.          *)
(***************************************************************************)
\* the largest of the small topologies
MaxSmall == 8

\* sampling.py:6: a sample_ratio for which int(n * sample_ratio) exceeds 1 on
\* a small topology
HalfRatio == <<1, 2>>

\* a topology of n domains of n superfamilies, a topology of two domains of
\* one structure, and a single-member topology
SmallStrataWorld(n) ==
    LET many == {<<20 + j, 1>> : j \in 1..n}
        pair == {<<30, 1>>, <<30, 2>>}
    IN  [features |-> [d \in many \cup pair \cup {<<1, 1>>} |-> WithClass("stable")],
         cath     |-> (<<1, 1>> :> <<2, 20, 20, 20>>)
                      @@ [d \in pair |-> <<1, 10, 20, 1>>]
                      @@ [d \in many |-> <<1, 10, 10, d[1]>>]]

InitSmallStrata ==
    /\ \E n \in 2..MaxSmall :
          /\ domain_features = SmallStrataWorld(n).features
          /\ cath_dict = SmallStrataWorld(n).cath
    /\ sample_ratio \in {BaseRatio, SampleRatio(max_iterations), HalfRatio}
    /\ pc = "hierarchical_stratified_sampling"
    /\ iteration = 0
    /\ holdout_domains = None
    /\ validation_results = None
    /\ ri = None
    /\ holdout_file = Unwritten
    /\ training_file = Unwritten
    /\ raised = "none"
    /\ runs = 0
    /\ candidate_domains = None
    /\ stability_components = None
    /\ sampled_indices = None
    /\ cath_hierarchy = None
    /\ domain_list = None
    /\ appended = None
    /\ n_clusters = 0
    /\ clusters = None

SpecSmallStrata == InitSmallStrata /\ [][NextSampler]_vars

\* C11: a topology of 2 to 9 domains adds exactly max(1, floor(n x r))
\* distinct members of its own to the candidate list, a single-member topology
\* adds its member or nothing, no topology adds a domain of another one, and
\* the candidate list holds no domain twice.
C11_SmallStratum ==
    (pc = "topologies" /\ domain_list # None) =>
        LET n    == Len(domain_list)
            down == (n * sample_ratio[1]) \div sample_ratio[2]
        IN  /\ Range(appended) \subseteq Range(domain_list)
            /\ AllDistinct(appended)
            /\ AllDistinct(candidate_domains)
            /\ (n = 1 => appended \in {<<>>, domain_list})
            /\ ((2 <= n /\ n <= 9) =>
                   Len(appended) = (IF down < 1 THEN 1 ELSE down))

\* the topology of at least 4 domains added two of them at ratio 0.5, after
\* another topology had added a candidate
C11_Witness ==
    /\ pc = "topologies"
    /\ domain_list # None
    /\ Len(domain_list) >= 4
    /\ Len(domain_list) <= 9
    /\ sample_ratio = HalfRatio
    /\ Len(appended) = 2
    /\ Len(candidate_domains) > Len(appended)

(***************************************************************************)
(* Properties of the validator.                                            *)
(***************************************************************************)
InUnit(x) == 0 <= x[1] /\ x[1] <= x[2]

\* the three factors of the Representation Index, stability_coverage being 1
\* when the metric was skipped (validation.py:109)
Factors ==
    << validation_results["distribution_similarity"],
       validation_results["hierarchy_coverage"],
       IF "stability_coverage" \in DOMAIN validation_results
       THEN validation_results["stability_coverage"] ELSE <<1, 1>> >>

\* C4: in every record statistical_validation returns, the three factors lie
\* in [0,1], so does the Representation Index (its cube does), and the index
\* is 0 exactly when one of the factors is 0.
C4_IndexInUnitInterval ==
    pc = "returned" =>
        /\ \A i \in 1..3 : InUnit(Factors[i])
        /\ InUnit(validation_results["representation_index"].cube)
        /\ (validation_results["representation_index"].cube[1] = 0
              <=> \E i \in 1..3 : Factors[i][1] = 0)

\* a returned record with an index strictly between 0 and 1, and one whose
\* index is 0
C4_Witness ==
    /\ pc = "returned"
    /\ LET x == validation_results["representation_index"].cube
       IN  0 < x[1] /\ x[1] < x[2]
    /\ validation_results["hierarchy_coverage"][1] < validation_results["hierarchy_coverage"][2]
    /\ "stability_coverage" \in DOMAIN validation_results
    /\ validation_results["stability_coverage"][1] < validation_results["stability_coverage"][2]

\* C5: calculate_representation_index applied to a record that
\* statistical_validation returned gives the record's representation_index.
C5_IndexRecomputable ==
    pc = "calculated" => ri = validation_results["representation_index"]

\* C6: with no holdout domain that has a feature record, statistical_validation
\* ends with a MissingDataError or an EmptyInputError, not by indexing the
\* empty list.
C6_EmptyHoldoutSurfaced ==
    (pc \in {"returned", "raised"} /\ HoldoutWithFeatures(holdout_domains) = <<>>) =>
        raised \in {"MissingDataError", "EmptyInputError"}

\* the stability classes recorded for the domains D, and the classes line 73
\* counts for them ('unknown' standing for a record without one)
RecordedClasses(D) ==
    {domain_features[d]["stability_class"] :
        d \in {e \in D : "stability_class" \in DOMAIN domain_features[e]}}
CountedClasses(D) == {StabilityClassOf(d) : d \in D}

\* C12: for a non-empty holdout the stability_coverage that enters the
\* Representation Index is the number of distinct stability classes of the
\* holdout over that of the population (classes read as the recorded ones, or
\* as line 73 counts them), and it is the default 1 only when the population
\* records no stability class.
C12_StabilityCoverageRatio ==
    pc = "returned" =>
        LET used    == Factors[3]
            holdout == Range(HoldoutWithFeatures(holdout_domains))
        IN  IF RecordedClasses(AllDomains) = {}
            THEN used = <<1, 1>>
            ELSE used \in {Rat(Cardinality(RecordedClasses(holdout)),
                               Cardinality(RecordedClasses(AllDomains))),
                           Rat(Cardinality(CountedClasses(holdout)),
                               Cardinality(CountedClasses(AllDomains)))}

(***************************************************************************)
(* main.py: main.                                                          *)
(***************************************************************************)
\* ri < 0.9 for ri = x ** (1/3): x < 0.9 ** 3
RootLt(root, q) == RLt(root.cube, RMul(RMul(q, q), q))

\* main.py:58
LoopConditionIgnoringIndex(r, it) == it < max_iterations

LoopCondition(r, it) == RootLt(r, Threshold) /\ it < max_iterations

\* main.py:79: sorted(holdout_domains)
SortedDomainList(s) ==
    LET AtOrBefore(j, i) == IdLess(s[j], s[i]) \/ (s[j] = s[i] /\ j <= i)
        RankOf(i) == Cardinality({j \in DOMAIN s : AtOrBefore(j, i)})
    IN  [r \in DOMAIN s |-> s[CHOOSE i \in DOMAIN s : RankOf(i) = r]]

\* main.py:83
TrainingDomainsAll(all, holdout) == all

TrainingDomains(all, holdout) == all \ Range(holdout)

\* validation.py:5-113 with the empty holdout skipped over instead of raising
ValidationSkippingEmpty(holdout) ==
    IF HoldoutWithFeatures(holdout) = <<>>
    THEN {[raised |-> "none",
           results |-> WithSummary("hierarchy_coverage" :> HierarchyCoverage(holdout))]}
    ELSE {[raised |-> "none", results |-> WithSummary(m)] : m \in MetricsOf(holdout)}

\* main.py:50 and 69: the call of statistical_validation
ValidationCall(holdout) == StatisticalValidationOutcomes(holdout)

InitMain ==
    /\ \E w \in SmallWorlds :
          /\ domain_features = w.features
          /\ cath_dict = w.cath
    /\ pc = "main"
    /\ iteration = 0
    /\ sample_ratio = None
    /\ holdout_domains = None
    /\ validation_results = None
    /\ ri = None
    /\ holdout_file = Unwritten
    /\ training_file = Unwritten
    /\ raised = "none"
    /\ runs = 0
    /\ candidate_domains = None
    /\ stability_components = None
    /\ sampled_indices = None
    /\ cath_hierarchy = None
    /\ domain_list = None
    /\ appended = None
    /\ n_clusters = 0
    /\ clusters = None

SamplerLocals == <<candidate_domains, stability_components, sampled_indices,
                   cath_hierarchy, domain_list, appended, n_clusters, clusters>>

\* main.py:43
InitialSampling ==
    /\ pc = "main"
    /\ sample_ratio' = BaseRatio
    /\ holdout_domains' \in HierarchicalStratifiedSampling(BaseRatio)
    /\ runs' = runs + 1
    /\ pc' = "validate"
    /\ UNCHANGED <<domain_features, cath_dict, iteration, validation_results, ri,
                   holdout_file, training_file, raised, SamplerLocals>>

\* main.py:50-51 and 69-70
Validate ==
    /\ pc = "validate"
    /\ \E o \in ValidationCall(holdout_domains) :
          IF o.raised = "none"
          THEN /\ validation_results' = o.results
               /\ ri' = o.results["representation_index"]
               /\ pc' = "loop"
               /\ UNCHANGED raised
          ELSE /\ raised' = o.raised
               /\ pc' = "failed"
               /\ UNCHANGED <<validation_results, ri>>
    /\ UNCHANGED <<domain_features, cath_dict, iteration, sample_ratio, holdout_domains,
                   holdout_file, training_file, runs, SamplerLocals>>

\* main.py:58-66
Refine ==
    /\ pc = "loop"
    /\ LoopCondition(ri, iteration)
    /\ iteration' = iteration + 1
    /\ \E r \in {SampleRatio(iteration + 1)} :
          /\ sample_ratio' = r
          /\ holdout_domains' \in HierarchicalStratifiedSampling(r)
    /\ runs' = runs + 1
    /\ pc' = "validate"
    /\ UNCHANGED <<domain_features, cath_dict, validation_results, ri,
                   holdout_file, training_file, raised, SamplerLocals>>

\* main.py:58 (the loop is left) and 74-80
WriteHoldout ==
    /\ pc = "loop"
    /\ ~LoopCondition(ri, iteration)
    /\ holdout_file' = Written(SortedDomainList(holdout_domains))
    /\ pc' = "write_training"
    /\ UNCHANGED <<domain_features, cath_dict, iteration, sample_ratio, holdout_domains,
                   validation_results, ri, training_file, raised, runs, SamplerLocals>>

\* main.py:83-87
WriteTraining ==
    /\ pc = "write_training"
    /\ training_file' = Written(SortedIds(TrainingDomains(AllDomains, holdout_domains)))
    /\ pc' = "done"
    /\ UNCHANGED <<domain_features, cath_dict, iteration, sample_ratio, holdout_domains,
                   validation_results, ri, holdout_file, raised, runs, SamplerLocals>>

Next == InitialSampling \/ Validate \/ Refine \/ WriteHoldout \/ WriteTraining

Init == InitMain

Spec == Init /\ [][Next]_vars

(***************************************************************************)
(* Properties of main.                                                     *)
(***************************************************************************)
\* C1: once both files are written, the holdout file lists the holdout of the
\* last run, no domain is in both files, and together they list exactly the
\* domains with feature records.
C1_Partition ==
    pc = "done" =>
        /\ holdout_file.written /\ training_file.written
        /\ Range(holdout_file.lines) = Range(holdout_domains)
        /\ Range(holdout_file.lines) \cap Range(training_file.lines) = {}
        /\ Range(holdout_file.lines) \cup Range(training_file.lines) = DOMAIN domain_features

\* a finished run that refined at least once and wrote two non-empty files,
\* the training file holding a domain that has no classification
C1_Witness ==
    /\ pc = "done"
    /\ iteration >= 1
    /\ holdout_file.lines # <<>>
    /\ \E d \in Range(training_file.lines) : d \notin DOMAIN cath_dict

\* the Representation Index of the last validation is below 0.9
IndexBelowThreshold == ri.cube[1] * 1000 < 729 * ri.cube[2]

Terminated == pc \in {"done", "failed"}

\* the steps main can still take: a bound that every step lowers
StepsLeft ==
    2 * (max_iterations - iteration)
      + (CASE pc = "main"           -> 5
           [] pc = "validate"       -> 4
           [] pc = "loop"           -> 3
           [] pc = "write_training" -> 2
           [] pc = "done"           -> 1
           [] pc = "failed"         -> 0)

\* C3: the loop terminates (every step lowers the natural number StepsLeft,
\* and main stops only when it is done or has raised); the pipeline runs once
\* and at most 5 more times; after a run with index >= 0.9, or after the 5th
\* additional run, no further run starts; below 0.9 with additional runs left
\* the next step is a new run; the holdout changes only in a run, and the
\* holdout file lists the holdout of the last run.
C3_RefinementLoop ==
    /\ [](/\ StepsLeft \in Nat
          /\ (Terminated \/ ENABLED Next)
          /\ runs <= 1 + 5
          /\ (pc # "main" => runs = iteration + 1)
          /\ (pc \in {"write_training", "done"} =>
                 /\ (~IndexBelowThreshold \/ iteration = 5)
                 /\ holdout_file.written
                 /\ Range(holdout_file.lines) = Range(holdout_domains)))
    /\ [][/\ StepsLeft' < StepsLeft
          /\ (pc = "loop" /\ (~IndexBelowThreshold \/ iteration = 5)) => runs' = runs
          /\ (pc = "loop" /\ IndexBelowThreshold /\ iteration < 5) => runs' = runs + 1
          /\ (holdout_domains' # holdout_domains => runs' = runs + 1)
          /\ (pc \in {"write_training", "done"} => runs' = runs)]_vars

\* a run that ended after the 5th additional pipeline run with an index below
\* 0.9 and wrote that run's holdout
C3_Witness ==
    /\ pc = "done"
    /\ runs = 6
    /\ IndexBelowThreshold
    /\ holdout_file = Written(SortedDomainList(holdout_domains))

\* C7: with no domain in both mappings the first validation raises and the
\* run ends there, in the exception the validation raised; a failed run has
\* written neither file; a file is written only after the loop was left.
C7_HardFailure ==
    /\ [](/\ (Domains = {} => pc \in {"main", "validate", "failed"})
          /\ (pc = "failed" =>
                 /\ raised # "none"
                 /\ holdout_file = Unwritten
                 /\ training_file = Unwritten)
          /\ (holdout_file.written => pc \in {"write_training", "done"})
          /\ (training_file.written => pc = "done"))
    /\ [][(Domains = {} /\ pc = "validate") => (pc' = "failed" /\ raised' # "none")]_vars

\* a run over a featured and a classified domain that are not the same one,
\* ended by an exception, with no file written
C7_Witness ==
    /\ pc = "failed"
    /\ domain_features # None
    /\ Domains = {}
    /\ raised # "none"
    /\ holdout_file = Unwritten
    /\ training_file = Unwritten

\* C8: the run of iteration i (1..5) uses the ratio (10 + i)/100, the first run
\* 0.1; every additional run raises the iteration by one and the ratio
\* strictly, returns a list the sampler can return for that ratio from the two
\* mappings alone, and the mappings never change.
C8_RatioSchedule ==
    /\ [](pc # "main" =>
             /\ iteration \in 0..5
             /\ sample_ratio[1] * 100 = (10 + iteration) * sample_ratio[2])
    /\ [][/\ domain_features' = domain_features
          /\ cath_dict' = cath_dict
          /\ (runs' # runs =>
                 holdout_domains' \in HierarchicalStratifiedSampling(sample_ratio'))
          /\ (runs' # runs /\ runs >= 1 =>
                 /\ iteration' = iteration + 1
                 /\ sample_ratio[1] * sample_ratio'[2] < sample_ratio'[1] * sample_ratio[2])]_vars

\* the 5th additional run, at ratio 0.15
C8_Witness ==
    /\ pc = "validate"
    /\ iteration = 5
    /\ sample_ratio = <<3, 20>>
    /\ holdout_domains # <<>>

====
